---- MODULE Spec2Model ----
(***************************************************************************)
(* Model of ext/discordrb/parse_mentions/parse_mentions.c: the scanner     *)
(* that extracts <...> mention tokens from a message body.                 *)
(*                                                                         *)
(* Characters are their ASCII codes.  A C string is a sequence of non-NUL  *)
(* codes; the terminating NUL is the (implicit) element at Len + 1.        *)
(* A char* into the text is an index 1 .. Len + 1, NULL is 0.              *)
(* A heap pointer is an index into the sequence heap, NULL is 0.           *)
(***************************************************************************)
EXTENDS Integers, Sequences, FiniteSets, TLC

\* ------------------------------------------------------------ characters
NUL   == 0
NULL  == 0
LAB   == 60
RAB   == 62
AT    == 64
BANG  == 33
AMP   == 38
HASH  == 35
CH_a  == 97
COLON == 58
CH_0  == 48
CH_9  == 57

\* enum MentionType
Error   == 0
User    == 1
Role    == 2
Channel == 3
Emoji   == 4

\* ---------------------------------------------------------------- bounds
MaxLen   == 4
MaxUnits == 4

\* the characters the inputs are built from: the ten the code tests for,
\* one digit ('1') and one letter that is neither a marker nor a digit ('x')
Alphabet == {LAB, RAB, AT, BANG, AMP, HASH, CH_a, COLON, 49, 120}

\* every text of at most MaxLen characters
ShortTexts == UNION {[1..n -> Alphabet] : n \in 0..MaxLen}

\* longer texts: up to MaxUnits whole tokens and stray characters in a row
Units ==
    { <<LAB, AT, 49, RAB>>,            \* <@1>
      <<LAB, AT, BANG, 49, RAB>>,      \* <@!1>
      <<LAB, AT, AMP, 49, RAB>>,       \* <@&1>
      <<LAB, HASH, 49, RAB>>,          \* <#1>
      <<LAB, CH_a, COLON, 49, RAB>>,   \* <a:1>
      <<LAB, 120, 49, RAB>>,           \* <x1>
      <<LAB, HASH, 120, RAB>>,         \* <#x>
      <<RAB>>,                         \* >
      <<120>> }                        \* x

RECURSIVE Concat(_)
Concat(ss) == IF ss = <<>> THEN <<>> ELSE Head(ss) \o Concat(Tail(ss))

LongTexts == {Concat(us) : us \in UNION {[1..k -> Units] : k \in 0..MaxUnits}}

Texts == ShortTexts \cup LongTexts

\* the VALUE handed to rb_parse_mentions: a String, or something else
Inputs == [isString : {TRUE}, chars : Texts] \cup {[isString |-> FALSE, chars |-> <<>>]}

\* ------------------------------------------------------------- C strings
\* *(text + p - 1): the byte at a pointer into a NUL-terminated string
CharAt(text, p) == IF p \in 1..Len(text) THEN text[p] ELSE NUL

\* strchr(src, c): the first position >= p holding c, NULL at the terminator
RECURSIVE strchr(_, _, _)
strchr(text, p, c) ==
    IF CharAt(text, p) = c THEN p
    ELSE IF CharAt(text, p) = NUL THEN NULL
    ELSE strchr(text, p + 1, c)

\* strlen of the C string that starts at 0-based offset off of a byte buffer
RECURSIVE strlen(_, _)
strlen(bytes, off) ==
    IF CharAt(bytes, off + 1) = NUL THEN 0 ELSE 1 + strlen(bytes, off + 1)

\* the C string (without its NUL) that starts at 0-based offset off
CStr(bytes, off) == SubSeq(bytes, off + 1, off + strlen(bytes, off))

\* ensure_int_str with only the upper comparison
ensure_int_str_upper_only(str) ==
    IF \E i \in 1..Len(str) : str[i] > CH_9 THEN 0 ELSE 1

\* ensure_int_str rejecting the empty string
ensure_int_str_nonempty(str) ==
    IF str = <<>> \/ \E i \in 1..Len(str) : (str[i] > CH_9 \/ str[i] < CH_0) THEN 0 ELSE 1

\* ensure_int_str: 1 unless some character before the NUL is outside '0'..'9'
ensure_int_str(str) ==
    IF \E i \in 1..Len(str) : (str[i] > CH_9 \/ str[i] < CH_0) THEN 0 ELSE 1

\* ------------------------------------------------------------------ heap
\* A block is a struct MentionNode (kind "node": id, type, next) or a char
\* buffer (kind "inner" or "id": size = bytes requested from malloc, bytes =
\* what has been written from its start, terminator included).  frees counts
\* the calls of free on the block; a block stays in heap after it is freed.
NodeBlock(id, type, next) ==
    [kind |-> "node", size |-> 0, bytes |-> <<>>, id |-> id, type |-> type,
     next |-> next, frees |-> 0]

BufBlock(kind, size, bytes) ==
    [kind |-> kind, size |-> size, bytes |-> bytes, id |-> NULL, type |-> Error,
     next |-> NULL, frees |-> 0]

\* free(p); free(NULL) does nothing
free(h, p) == IF p = NULL THEN h ELSE [h EXCEPT ![p].frees = @ + 1]

\* null_mention: a fresh node {Error, NULL, NULL}; its pointer is Len(h) + 1
null_mention(h) == Append(h, NodeBlock(NULL, Error, NULL))

\* destroy_mentions: free every node of the list and its id; the id of the
\* last node only when its type is not Error
RECURSIVE destroy_mentions(_, _)
destroy_mentions(h, mentions) ==
    IF h[mentions].next # NULL
    THEN destroy_mentions(free(free(h, h[mentions].id), mentions), h[mentions].next)
    ELSE IF h[mentions].type # Error
         THEN free(free(h, h[mentions].id), mentions)
         ELSE free(h, mentions)

\* ------------------------------------------------------- find_closest_lab
\* the while loop of find_closest_lab: walk left from lab_ptr to a '<', not
\* past src
RECURSIVE lab_scan(_, _, _)
lab_scan(text, src, lab_ptr) ==
    IF CharAt(text, lab_ptr) # LAB /\ lab_ptr > src
    THEN lab_scan(text, src, lab_ptr - 1)
    ELSE lab_ptr

\* find_closest_lab: the nearest '<' in [src, rab], NULL when there is none
find_closest_lab(text, src, rab) ==
    LET lab_ptr == lab_scan(text, src, rab)
    IN  IF lab_ptr = src /\ CharAt(text, lab_ptr) # LAB THEN NULL ELSE lab_ptr

\* ------------------------------------------------------------ new_mention
\* an allocation that leaves room for the terminator
InnerAllocSize_with_nul(lab, rab) == rab - lab

\* the size handed to malloc for the interior buffer
InnerAllocSize(lab, rab) == (rab - lab) - 1

\* strncpy(inner_ptr, lab + 1, (rab - lab) - 1): the source holds no NUL
\* before rab, so exactly that many characters are copied
InnerCopy(text, lab, rab) == [i \in 1..((rab - lab) - 1) |-> CharAt(text, lab + i)]

\* *(buf + idx) = '\0' on a buffer written so far up to Len(bytes).  A write
\* at idx = size is outside the block: it is kept in bytes, so that
\* Len(bytes) > size records it, and the byte is read back as written (the
\* one byte after a request of a few bytes is the allocator's padding).
WriteNUL(bytes, idx) ==
    IF idx + 1 \in 1..Len(bytes) THEN [bytes EXCEPT ![idx + 1] = NUL]
    ELSE Append(bytes, NUL)

\* the switch on inner_ptr[0] with case 'a' left out
MentionCase_no_a(c0) ==
    IF c0 = AT THEN "at"
    ELSE IF c0 = HASH THEN "hash"
    ELSE IF c0 = COLON THEN "emoji"
    ELSE "default"

\* the switch on inner_ptr[0]
MentionCase(c0) ==
    IF c0 = AT THEN "at"
    ELSE IF c0 = HASH THEN "hash"
    ELSE IF c0 = CH_a \/ c0 = COLON THEN "emoji"
    ELSE "default"

\* case '@': the type and the offset of the identifier, from inner_ptr[1]
AtPrefix(c1) ==
    IF c1 = BANG THEN [type |-> User, offset |-> 2]
    ELSE IF c1 = AMP THEN [type |-> Role, offset |-> 2]
    ELSE [type |-> User, offset |-> 1]

\* new_mention: fill the node mention from the token text[lab .. rab]
new_mention(h, mention, text, lab, rab) ==
    LET h0        == [h EXCEPT ![mention].next = NULL]
        inner_ptr == Len(h0) + 1
        inner     == WriteNUL(InnerCopy(text, lab, rab), (rab - lab) - 1)
        h1        == Append(h0, BufBlock("inner", InnerAllocSize(lab, rab), inner))
        branch    == MentionCase(CharAt(inner, 1))
    IN  CASE branch = "at" ->
               LET pre    == AtPrefix(CharAt(inner, 2))
                   id_ptr == Len(h1) + 1
                   id     == CStr(inner, pre.offset)
                   h2     == Append(h1, BufBlock("id", strlen(inner, pre.offset) + 1,
                                                 Append(id, NUL)))
                   h3     == free(h2, inner_ptr)
               IN  IF ensure_int_str(id) # 0
                   THEN [h3 EXCEPT ![mention].id = id_ptr, ![mention].type = pre.type]
                   ELSE [free(h3, id_ptr) EXCEPT ![mention].type = Error]
          [] branch = "hash" ->
               LET status == ensure_int_str(CStr(inner, 1))
                   id_ptr == Len(h1) + 1
                   h2     == Append(h1, BufBlock("id", strlen(inner, 1) + 1,
                                                 Append(CStr(inner, 1), NUL)))
                   h3     == free(h2, inner_ptr)
               IN  [h3 EXCEPT ![mention].id = id_ptr,
                              ![mention].type = IF status # 0 THEN Channel ELSE Error]
          [] branch = "emoji" ->
               [h1 EXCEPT ![mention].type = Emoji, ![mention].id = inner_ptr]
          [] OTHER ->
               [free(h1, inner_ptr) EXCEPT ![mention].type = Error]

\* ------------------------------------------------------------ add_mention
\* no walk: the new node is linked right behind the head
tail_of_head(h, node) == node

\* while (mention_node->next != NULL) mention_node = mention_node->next
RECURSIVE tail_of(_, _)
tail_of(h, node) == IF h[node].next # NULL THEN tail_of(h, h[node].next) ELSE node

\* add_mention: build a node for the token and link it behind the last node,
\* or destroy it when it is an Error or has no id
add_mention(h, mentions, text, lab, rab) ==
    LET h1           == null_mention(h)
        next_node    == Len(h) + 1
        mention_node == tail_of(h1, mentions)
        h2           == new_mention(h1, next_node, text, lab, rab)
    IN  IF h2[next_node].type # Error /\ h2[next_node].id # NULL
        THEN [h2 EXCEPT ![mention_node].next = next_node]
        ELSE destroy_mentions(h2, next_node)

\* ----------------------------------------------------------- find_mention
\* return rab without the increment
NextCursor_same(rab) == rab

\* return ++rab
NextCursor(rab) == rab + 1

\* add_mention called with lab = NULL.  new_mention computes rab - NULL and
\* reads from NULL + 1: undefined behaviour.  null_mention has run; malloc of
\* the address-sized request fails or not; the strncpy that follows reads
\* (or writes) the unmapped page at address 0 and the process is killed.
\* The heaps the call can leave behind:
NullLabHeaps(h, rab) ==
    { null_mention(h),
      Append(null_mention(h), BufBlock("inner", (rab - NULL) - 1, <<>>)) }

\* find_mention: one pass of the scan from src.  ptr is the returned pointer,
\* fault says that the pass hit the NULL lab
find_mention(h, mentions, text, src) ==
    LET rab == strchr(text, src, RAB)
    IN  IF rab = NULL
        THEN [ptr |-> NULL, heap |-> h, fault |-> FALSE]
        ELSE LET lab == find_closest_lab(text, src, rab)
             IN  IF lab = NULL
                 THEN [ptr |-> NULL, heap |-> null_mention(h), fault |-> TRUE]
                 ELSE [ptr |-> NextCursor(rab),
                       heap |-> add_mention(h, mentions, text, lab, rab),
                       fault |-> FALSE]

\* the while loop of find_mentions
RECURSIVE scan_loop(_, _, _, _)
scan_loop(h, mentions, text, ptr) ==
    LET r == find_mention(h, mentions, text, ptr)
    IN  IF r.fault \/ r.ptr = NULL THEN r
        ELSE scan_loop(r.heap, mentions, text, r.ptr)

\* find_mentions: the head node is block 1 of a fresh heap
find_mentions(text) == scan_loop(null_mention(<<>>), 1, text, 1)

\* ------------------------------------------------------ rb_parse_mentions
\* the symbols with user and role exchanged
MentionSymbol_swapped(type) ==
    CASE type = User    -> "role"
      [] type = Channel -> "channel"
      [] type = Role    -> "user"
      [] type = Emoji   -> "emoji"
      [] OTHER          -> "nil"

\* the switch of rb_mention_to_rb_ary: the symbol pushed first, "nil" for Qnil
MentionSymbol(type) ==
    CASE type = User    -> "user"
      [] type = Channel -> "channel"
      [] type = Role    -> "role"
      [] type = Emoji   -> "emoji"
      [] OTHER          -> "nil"

\* rb_mention_to_rb_ary: [symbol, rb_str_new_cstr(node->id)], or Qnil (<<>>)
rb_mention_to_rb_ary(h, node) ==
    IF MentionSymbol(h[node].type) = "nil" THEN <<>>
    ELSE <<MentionSymbol(h[node].type), CStr(h[h[node].id].bytes, 0)>>

\* the while loop of rb_parse_mentions, from the node after mention_node
RECURSIVE mention_ary(_, _)
mention_ary(h, mention_node) ==
    IF h[mention_node].next = NULL THEN <<>>
    ELSE LET mention == rb_mention_to_rb_ary(h, h[mention_node].next)
         IN  (IF mention = <<>> THEN <<>> ELSE <<mention>>)
             \o mention_ary(h, h[mention_node].next)

\* what a call returns
Qnil       == [kind |-> "nil", ary |-> <<>>]
RbAry(ary) == [kind |-> "ary", ary |-> ary]
NoValue    == [kind |-> "none", ary |-> <<>>]
Killed     == [kind |-> "killed", ary |-> <<>>]

\* rb_parse_mentions as a function of its argument
rb_parse_mentions(str) ==
    IF ~str.isString THEN Qnil
    ELSE LET r == find_mentions(str.chars)
         IN  IF r.fault THEN Killed ELSE RbAry(mention_ary(r.heap, 1))

\* ------------------------------------------------------------------ state
VARIABLES
    input,     \* the argument str of rb_parse_mentions
    pc,        \* "call", "scan", "convert", "returned", "fault"
    ptr,       \* the cursor of find_mentions
    heap,      \* the blocks malloc has handed out in this call
    mentions,  \* the head of the list (a heap pointer)
    result,    \* the VALUE returned
    iter       \* passes of the loop of find_mentions made so far

vars == <<input, pc, ptr, heap, mentions, result, iter>>

Init ==
    /\ input \in Inputs
    /\ pc = "call"
    /\ ptr = NULL
    /\ heap = <<>>
    /\ mentions = NULL
    /\ result = NoValue
    /\ iter = 0

\* rb_parse_mentions on a non-String: return Qnil
EnterNotString ==
    /\ pc = "call"
    /\ ~input.isString
    /\ result' = Qnil
    /\ pc' = "returned"
    /\ UNCHANGED <<input, ptr, heap, mentions, iter>>

\* rb_parse_mentions on a String, up to the loop of find_mentions
EnterString ==
    /\ pc = "call"
    /\ input.isString
    /\ heap' = null_mention(heap)
    /\ mentions' = Len(heap) + 1
    /\ ptr' = 1
    /\ pc' = "scan"
    /\ UNCHANGED <<input, result, iter>>

\* a pass that finds no '>': find_mention returns NULL, the loop ends
FindMentionNoRab ==
    /\ pc = "scan"
    /\ strchr(input.chars, ptr, RAB) = NULL
    /\ LET r == find_mention(heap, mentions, input.chars, ptr)
       IN  /\ heap' = r.heap
           /\ ptr' = r.ptr
    /\ iter' = iter + 1
    /\ pc' = "convert"
    /\ UNCHANGED <<input, mentions, result>>

\* a pass that finds a '>' and a '<' in its window
FindMentionAdd ==
    /\ pc = "scan"
    /\ strchr(input.chars, ptr, RAB) # NULL
    /\ find_closest_lab(input.chars, ptr, strchr(input.chars, ptr, RAB)) # NULL
    /\ LET r == find_mention(heap, mentions, input.chars, ptr)
       IN  /\ heap' = r.heap
           /\ ptr' = r.ptr
    /\ iter' = iter + 1
    /\ UNCHANGED <<input, pc, mentions, result>>

\* a pass that finds a '>' with no '<' in its window
FindMentionNullLab ==
    /\ pc = "scan"
    /\ strchr(input.chars, ptr, RAB) # NULL
    /\ find_closest_lab(input.chars, ptr, strchr(input.chars, ptr, RAB)) = NULL
    /\ find_mention(heap, mentions, input.chars, ptr).fault
    /\ heap' \in NullLabHeaps(heap, strchr(input.chars, ptr, RAB))
    /\ iter' = iter + 1
    /\ pc' = "fault"
    /\ result' = Killed
    /\ UNCHANGED <<input, ptr, mentions>>

\* rb_parse_mentions after find_mentions: build the array, destroy the list
Return ==
    /\ pc = "convert"
    /\ result' = RbAry(mention_ary(heap, mentions))
    /\ heap' = destroy_mentions(heap, mentions)
    /\ pc' = "returned"
    /\ UNCHANGED <<input, ptr, mentions, iter>>

Next ==
    \/ EnterNotString
    \/ EnterString
    \/ FindMentionNoRab
    \/ FindMentionAdd
    \/ FindMentionNullLab
    \/ Return

Spec == Init /\ [][Next]_vars

TypeOK ==
    /\ pc \in {"call", "scan", "convert", "returned", "fault"}
    /\ ptr \in 0..(Len(input.chars) + 1)
    /\ result.kind \in {"none", "nil", "ary", "killed"}

\* =================================================================
\* What the scanner is to do, stated on the text alone
\* =================================================================
T == input.chars

Max(S) == CHOOSE x \in S : \A y \in S : y <= x
Min(S) == CHOOSE x \in S : \A y \in S : x <= y

RabPos(t) == {i \in 1..Len(t) : t[i] = RAB}

\* the window of the '>' at r starts right after the '>' before it
WindowStart(t, r) == 1 + Max({0} \cup {j \in RabPos(t) : j < r})
LabsInWindow(t, r) == {j \in WindowStart(t, r)..r : t[j] = LAB}
EveryRabHasLab(t) == \A r \in RabPos(t) : LabsInWindow(t, r) # {}

\* the text strictly between the nearest '<' and the '>' at r
InnerOf(t, r) == SubSeq(t, Max(LabsInWindow(t, r)) + 1, r - 1)

IsDigits(s) == \A i \in 1..Len(s) : s[i] \in CH_0..CH_9
StartsWith(s, pre) == Len(s) >= Len(pre) /\ SubSeq(s, 1, Len(pre)) = pre
Drop(s, n) == SubSeq(s, n + 1, Len(s))
OneIfDigits(kind, id) == IF IsDigits(id) THEN << <<kind, id>> >> ELSE <<>>

\* the classification table: the records (none or one) a token interior gives
TableRecords(inner) ==
    IF StartsWith(inner, <<AT, BANG>>) THEN OneIfDigits("user", Drop(inner, 2))
    ELSE IF StartsWith(inner, <<AT, AMP>>) THEN OneIfDigits("role", Drop(inner, 2))
    ELSE IF StartsWith(inner, <<AT>>) THEN OneIfDigits("user", Drop(inner, 1))
    ELSE IF StartsWith(inner, <<HASH>>) THEN OneIfDigits("channel", Drop(inner, 1))
    ELSE IF StartsWith(inner, <<CH_a>>) \/ StartsWith(inner, <<COLON>>)
         THEN << <<"emoji", inner>> >>
    ELSE <<>>

\* the k-th '>' of t from the left
NthRab(t, k) == CHOOSE r \in RabPos(t) : Cardinality({j \in RabPos(t) : j <= r}) = k

\* the records of the classifiable tokens of t in their order of appearance
ExpectedRecords(t) ==
    Concat([k \in 1..Cardinality(RabPos(t)) |-> TableRecords(InnerOf(t, NthRab(t, k)))])

\* the token the pass that starts at the cursor works on
HasRab == \E i \in ptr..Len(T) : T[i] = RAB
CurRab == Min({i \in ptr..Len(T) : T[i] = RAB})
CurLabs == {j \in ptr..CurRab : T[j] = LAB}
CurInner == SubSeq(T, Max(CurLabs) + 1, CurRab - 1)

\* the records in the list so far
Accumulated == mention_ary(heap, mentions)

\* a pass that handled a token: the step from "scan" to "scan"
TokenPass == pc = "scan" /\ pc' = "scan" /\ iter' = iter + 1

Returned == pc = "returned" /\ input.isString

\* C1: for every input text a call never reaches a fault (it never computes
\* with a NULL opening-delimiter position) and returns a sequence of records.
C1_NeverFaults ==
    /\ pc # "fault"
    /\ result.kind # "killed"
    /\ Returned => result.kind = "ary"

\* C2: when the next '>' at or after the cursor has no '<' in the window
\* [cursor, that '>'], the scan stops there and returns exactly the records
\* accumulated so far.
C2_UnmatchedRabStopsScan ==
    [][ (pc = "scan" /\ HasRab /\ CurLabs = {})
          => /\ pc' = "convert"
             /\ mention_ary(heap', mentions') = Accumulated ]_vars

\* C3: when every '>' has a '<' in its window, the returned sequence is
\* exactly the records of the classifiable tokens in left-to-right order; a
\* token that fails classification or validation adds nothing and does not
\* stop the scan.
C3_OrderedValidTokens ==
    (Returned /\ EveryRabHasLab(T)) => result = RbAry(ExpectedRecords(T))

\* a returned call whose text holds a recorded token, then a rejected one,
\* then a recorded one of another kind
C3_Witness ==
    /\ Returned
    /\ Len(result.ary) >= 2
    /\ \E a, b, c \in RabPos(T) :
         /\ a < b /\ b < c
         /\ TableRecords(InnerOf(T, a)) # <<>>
         /\ TableRecords(InnerOf(T, b)) = <<>>
         /\ TableRecords(InnerOf(T, c)) # <<>>
         /\ TableRecords(InnerOf(T, a))[1][1] # TableRecords(InnerOf(T, c))[1][1]

\* C4: a token whose interior starts with @!, @&, @ or # adds a User, Role,
\* User or Channel record with the text after the 2-, 2-, 1- or 1-character
\* prefix if and only if that text is all ASCII digits, and nothing otherwise.
C4_AtHashClassification ==
    [][ (TokenPass /\ (StartsWith(CurInner, <<AT>>) \/ StartsWith(CurInner, <<HASH>>)))
          => mention_ary(heap', mentions') =
               Accumulated \o
               (IF StartsWith(CurInner, <<AT, BANG>>)
                THEN OneIfDigits("user", Drop(CurInner, 2))
                ELSE IF StartsWith(CurInner, <<AT, AMP>>)
                THEN OneIfDigits("role", Drop(CurInner, 2))
                ELSE IF StartsWith(CurInner, <<AT>>)
                THEN OneIfDigits("user", Drop(CurInner, 1))
                ELSE OneIfDigits("channel", Drop(CurInner, 1))) ]_vars

\* a returned call that recorded <@!1> as User "1", a Role and a Channel, and
\* rejected the token <#x>, whose identifier is not all digits
C4_Witness ==
    /\ Returned
    /\ \E r \in RabPos(T) : /\ LabsInWindow(T, r) # {}
                            /\ InnerOf(T, r) = <<AT, BANG, 49>>
    /\ \E i \in 1..Len(result.ary) : result.ary[i] = <<"user", <<49>>>>
    /\ \E i \in 1..Len(result.ary) : result.ary[i][1] = "role"
    /\ \E i \in 1..Len(result.ary) : result.ary[i][1] = "channel"
    /\ \E r \in RabPos(T) : /\ LabsInWindow(T, r) # {}
                            /\ InnerOf(T, r) = <<HASH, 120>>

\* C5: a token whose interior starts with a or : adds exactly one Emoji
\* record whose identifier is the whole interior; a token whose interior is
\* empty or starts with anything but @, #, a, : adds nothing.
C5_EmojiAndDefault ==
    [][ (TokenPass /\ ~StartsWith(CurInner, <<AT>>) /\ ~StartsWith(CurInner, <<HASH>>))
          => mention_ary(heap', mentions') =
               Accumulated \o
               (IF StartsWith(CurInner, <<CH_a>>) \/ StartsWith(CurInner, <<COLON>>)
                THEN << <<"emoji", CurInner>> >>
                ELSE <<>>) ]_vars

\* a returned call that recorded an 'a' emoji with a non-digit interior and
\* dropped a token of the default branch
C5_Witness ==
    /\ Returned
    /\ \E i \in 1..Len(result.ary) :
         /\ result.ary[i][1] = "emoji"
         /\ result.ary[i][2][1] = CH_a
         /\ ~IsDigits(Drop(result.ary[i][2], 1))
    /\ \E r \in RabPos(T) : /\ LabsInWindow(T, r) # {}
                            /\ MentionCase(CharAt(InnerOf(T, r), 1)) = "default"

\* C6: an empty identifier passes digit validation and is recorded:
\* <@> and <@!> give User "", <@&> gives Role "", <#> gives Channel "".
C6_EmptyIdentifierRecorded ==
    Returned =>
      /\ T = <<LAB, AT, RAB>>       => result = RbAry(<< <<"user", <<>>>> >>)
      /\ T = <<LAB, AT, BANG, RAB>> => result = RbAry(<< <<"user", <<>>>> >>)
      /\ T = <<LAB, AT, AMP, RAB>>  => result = RbAry(<< <<"role", <<>>>> >>)
      /\ T = <<LAB, HASH, RAB>>     => result = RbAry(<< <<"channel", <<>>>> >>)

\* the call on <@> has returned its one record
C6_Witness ==
    /\ Returned
    /\ T = <<LAB, AT, RAB>>
    /\ Len(result.ary) = 1
    /\ result.ary[1][2] = <<>>

\* a record written back as a token
TokenOf(rec) ==
    CASE rec[1] = "user"    -> <<LAB, AT>> \o rec[2] \o <<RAB>>
      [] rec[1] = "role"    -> <<LAB, AT, AMP>> \o rec[2] \o <<RAB>>
      [] rec[1] = "channel" -> <<LAB, HASH>> \o rec[2] \o <<RAB>>
      [] OTHER              -> <<LAB>> \o rec[2] \o <<RAB>>

Serialise(ary) == Concat([i \in 1..Len(ary) |-> TokenOf(ary[i])])

\* C7: scanning the re-serialised result of a scan returns the same sequence.
C7_RoundTrip ==
    Returned =>
      rb_parse_mentions([isString |-> TRUE, chars |-> Serialise(result.ary)]) = result

\* a returned call with records of three kinds, an emoji among them, from a
\* text that is not its own serialisation
C7_Witness ==
    /\ Returned
    /\ Cardinality({result.ary[i][1] : i \in 1..Len(result.ary)}) >= 3
    /\ \E i \in 1..Len(result.ary) : result.ary[i][1] = "emoji"
    /\ Serialise(result.ary) # T

C9_AllBlocksFreedOnce ==
    Returned => \A b \in 1..Len(heap) : heap[b].frees = 1

\* the interior buffers written during the call
InnerBlocks == {b \in 1..Len(heap) : heap[b].kind = "inner" /\ heap[b].bytes # <<>>}
Branches == {"at", "hash", "emoji", "default"}
BranchOf(b) == MentionCase(CharAt(heap[b].bytes, 1))

\* C10 as amended: for every token, in every branch of the switch, the
\* interior buffer has (rab - lab) - 1 bytes and the terminator is written at
\* index (rab - lab) - 1, one byte past the allocation.
C10_EveryTokenOverflows ==
    \A b \in InnerBlocks :
       /\ heap[b].size = strlen(heap[b].bytes, 0)
       /\ Len(heap[b].bytes) = heap[b].size + 1

\* C10 as stated: the overflow is in some branches only: there is a branch
\* whose tokens keep every write inside the allocation.
C10_SomeBranchInBounds ==
    \E br \in Branches :
       \A b \in InnerBlocks : BranchOf(b) = br => Len(heap[b].bytes) <= heap[b].size

\* a call that has handled a token of every branch
C10_Witness ==
    /\ pc = "convert"
    /\ \A br \in Branches : \E b \in InnerBlocks : BranchOf(b) = br
====
